---- MODULE Spec2Model ----
(***************************************************************************)
(* Scoring and grading subsystem of the EcoLearners platform API           *)
(* (src/backend/main.py): the submission ledger (submit_task,              *)
(* submit_quiz), the grading engine (grade_task_submission,                *)
(* grade_quiz_submission) and the report builder (get_student_report).     *)
(*                                                                         *)
(* The handlers are plain `def` endpoints, which FastAPI runs on a thread  *)
(* pool, each request with a database session of its own (get_db).  The    *)
(* SQLite driver opens a transaction only at the first INSERT/UPDATE, so   *)
(* every SELECT of a handler is a step of its own that sees the committed  *)
(* state of that moment, and flush+commit is one atomic write.  A handler  *)
(* is therefore modelled as the sequence of its database statements; the   *)
(* statements of different requests interleave.                            *)
(***************************************************************************)
EXTENDS Integers, Sequences, FiniteSets

\* ---------------------------------------------------------------- bounds
NumWorkers == 2     \* requests in flight at the same time
MaxSubs == 2        \* submission rows (both tables together)
MaxTasks == 1       \* assigned_tasks rows
MaxLessons == 1     \* lessons rows
MaxGameId == 4      \* largest games id
MaxScores == 2      \* game_scores rows
MaxQuestions == 2   \* questions of one QuizCreate
MaxAnswers == 2     \* answers of one QuizSubmissionIn
MaxUsers == 12      \* users rows the leaderboard query reads
MaxTeachers == 1    \* teachers among them
MaxScored == 1      \* users among them whose points are not the default 0
\* leaderboard: .limit(10)
LeaderboardLimit == 10

Workers == 1..NumWorkers
\* submission ids, task ids and quiz ids a caller may name (one past the
\* largest that can exist, so that a missing row can be named)
SubIds == 1..MaxSubs
TaskIds == 1..MaxTasks
QuizIds == 1..MaxLessons
LessonIds == 1..MaxLessons
GameIds == 1..MaxGameId
\* the question_id values a submission may carry: those a quiz can have and
\* one no question ever has
QuestionIds == 1..(MaxQuestions + 1)
\* QuizSubmissionIn.answers, as the sequence of its question_id values
AnswerPayloads ==
    UNION {[1..n -> QuestionIds] : n \in 0..MaxAnswers}
\* what a caller may send as GameScoreIn.score and as add_game's skill
GameScoreValues == {0, 5}
NewSkills == {"Typing Speed", "Memory"}
\* the integers a grader may send as TaskGradeIn.points / QuizSubmissionScore.score
GradeValues == {-1, 2}

\* ------------------------------------------------------------- demo data
DemoStudent == 1
DemoTeacher == 2
Users == {DemoStudent, DemoTeacher}
role == [u \in Users |-> IF u = DemoTeacher THEN "teacher" ELSE "student"]

\* the three games of the demo data
DemoGames ==
    {[id |-> 1, skill |-> "Typing Speed"],
     [id |-> 2, skill |-> "Logical Skill"],
     [id |-> 3, skill |-> "Mathematical Ability"]}

\* a nullable Integer column: <<>> is NULL, <<v>> is the value v
NULL == <<>>
Val(v) == <<v>>

VARIABLES
    points,            \* users.points, by user id
    tasks,             \* number of assigned_tasks rows (ids 1..tasks)
    lessons,           \* number of lessons rows (ids 1..lessons)
    quizzes,           \* quizzes rows: quizzes[id] is the row's lesson_id
    task_submissions,  \* task_submissions rows, by id
    quiz_submissions,  \* quiz_submissions rows, by id
    req,               \* the request each pool thread is serving
    questions,         \* questions rows: a set of [id, quiz_id]
    answers,           \* answers rows, by id: [submission_id, question_id]
    games,             \* games rows: a set of [id, skill]
    game_scores,       \* game_scores rows: a set of [id, user_id, game_id, score]
    user_rows,         \* the users rows the leaderboard query reads, by id
    deleted_games      \* history: the ids delete_game has deleted a game of

\* the tables the grading and submission handlers never write
content == <<questions, answers, games, game_scores, user_rows, deleted_games>>
vars == <<points, tasks, lessons, quizzes, task_submissions, quiz_submissions,
          req, questions, answers, games, game_scores, user_rows,
          deleted_games>>
db == <<points, tasks, lessons, quizzes, task_submissions, quiz_submissions,
        questions, answers, games, game_scores, user_rows, deleted_games>>

\* ------------------------------------------------------------------ rows
TaskSubmission(u, t) ==
    [task_id |-> t, user_id |-> u, approved |-> FALSE, points_awarded |-> 0]

\* the slip "score defaults to 0" instead of being nullable and unset
QuizSubmission_ZeroScore(u, q) ==
    [quiz_id |-> q, user_id |-> u, is_graded |-> FALSE, score |-> <<0>>]

QuizSubmission(u, q) ==
    [quiz_id |-> q, user_id |-> u, is_graded |-> FALSE, score |-> NULL]

Idle ==
    [pc |-> "idle", op |-> "none", user |-> 0, id |-> 0, pts |-> 0,
     cache |-> 0, res |-> 0, out |-> 0, body |-> <<>>]

\* a request of `op` by the authenticated user u on row/item id
Request(op, u, id, p, pc) ==
    [pc |-> pc, op |-> op, user |-> u, id |-> id, pts |-> p,
     cache |-> 0, res |-> 0, out |-> 0, body |-> <<>>]

\* the response: the handler returned (200/201) or raised HTTPException(code)
Respond(r, code) == [r EXCEPT !.pc = "done", !.res = code, !.cache = 0]

InFlightSubmits ==
    Cardinality({w \in Workers :
        req[w].pc # "done" /\ req[w].op \in {"submit_task", "submit_quiz"}})

InitTables ==
    /\ points = [u \in Users |-> 0]
    /\ tasks = 0
    /\ lessons = 0
    /\ quizzes = <<>>
    /\ task_submissions = <<>>
    /\ quiz_submissions = <<>>
    /\ req = [w \in Workers |-> Idle]
    /\ questions = {}
    /\ answers = <<>>
    /\ games = DemoGames
    /\ game_scores = {}
    /\ deleted_games = {}

Init ==
    /\ InitTables
    /\ user_rows = <<>>

\* INTEGER PRIMARY KEY without AUTOINCREMENT: the id of a new row is one
\* more than the largest id in the table
NextId(rows) ==
    IF rows = {} THEN 1
    ELSE 1 + (CHOOSE m \in {r.id : r \in rows} : \A r \in rows : r.id <= m)

\* db.query(M).filter_by(user_id=u, <item>=i).first() is not None
HasTaskSubmission(u, t) ==
    \E i \in 1..Len(task_submissions) :
        task_submissions[i].user_id = u /\ task_submissions[i].task_id = t

HasQuizSubmission(u, q) ==
    \E i \in 1..Len(quiz_submissions) :
        quiz_submissions[i].user_id = u /\ quiz_submissions[i].quiz_id = q

\* ------------------------------------------------- teacher content set-up
\* These three requests are taken as one step each: they write one row in
\* one commit, and grading and submitting read of them only whether the
\* row exists.  A caller who is not a teacher gets 403 and nothing changes.
CreateLesson(u) ==
    /\ role[u] = "teacher"
    /\ lessons < MaxLessons
    /\ lessons' = lessons + 1
    /\ UNCHANGED <<points, tasks, quizzes, task_submissions, quiz_submissions, req>>
    /\ UNCHANGED content

\* the rows n consecutive inserts add to a table: ids above the largest
\* id that is left in it
NewQuestions(kept, q, n) ==
    {[id |-> NextId(kept) + i - 1, quiz_id |-> q] : i \in 1..n}

\* the quiz of lesson l is created unless the lesson has one (quizzes are
\* never deleted); the questions the quiz had are deleted and the n
\* questions of quiz_in.questions inserted
CreateOrUpdateQuiz(u, l, n) ==
    /\ role[u] = "teacher"
    /\ l \in 1..lessons
    /\ IF \E q \in 1..Len(quizzes) : quizzes[q] = l
       THEN LET quiz == CHOOSE q \in 1..Len(quizzes) : quizzes[q] = l
                kept == {r \in questions : r.quiz_id # quiz}
            IN /\ quizzes' = quizzes
               /\ questions' = kept \cup NewQuestions(kept, quiz, n)
       ELSE /\ quizzes' = Append(quizzes, l)
            /\ questions' =
                 questions \cup NewQuestions(questions, Len(quizzes) + 1, n)
    /\ UNCHANGED <<points, tasks, lessons, task_submissions, quiz_submissions,
                   req, answers, games, game_scores, user_rows, deleted_games>>

AssignTask(u) ==
    /\ role[u] = "teacher"
    /\ tasks < MaxTasks
    /\ tasks' = tasks + 1
    /\ UNCHANGED <<points, lessons, quizzes, task_submissions, quiz_submissions, req>>
    /\ UNCHANGED content

\* ------------------------------------------------------------ submit_task
\* the request of user u for task t arrives, and the duplicate check:
\* SELECT ... WHERE user_id = u AND task_id = t; 400 when a row is found.
\* (The second conjunct keeps the tables within MaxSubs rows.)
SubmitTask_Check(w, u, t) ==
    /\ req[w].pc = "idle"
    /\ Len(task_submissions) + Len(quiz_submissions) + InFlightSubmits < MaxSubs
    /\ req' = [req EXCEPT ![w] =
                 IF HasTaskSubmission(u, t)
                 THEN Respond(Request("submit_task", u, t, 0, "check"), 400)
                 ELSE Request("submit_task", u, t, 0, "commit")]
    /\ UNCHANGED db

\* the file is stored, then db.add(submission); db.commit()
SubmitTask_Commit(w) ==
    /\ req[w].pc = "commit" /\ req[w].op = "submit_task"
    /\ task_submissions' =
         Append(task_submissions, TaskSubmission(req[w].user, req[w].id))
    /\ req' = [req EXCEPT ![w] = Respond(req[w], 201)]
    /\ UNCHANGED <<points, tasks, lessons, quizzes, quiz_submissions>>
    /\ UNCHANGED content

\* ------------------------------------------------------------ submit_quiz
\* the request of user u for quiz q arrives, and
\* quiz = db.query(Quiz).get(quiz_id); 404 when there is none
SubmitQuiz_Get(w, u, q, payload) ==
    /\ req[w].pc = "idle"
    /\ Len(task_submissions) + Len(quiz_submissions) + InFlightSubmits < MaxSubs
    /\ req' = [req EXCEPT ![w] =
                 IF q \in 1..Len(quizzes)
                 THEN [Request("submit_quiz", u, q, 0, "check")
                          EXCEPT !.body = payload]
                 ELSE Respond(Request("submit_quiz", u, q, 0, "get"), 404)]
    /\ UNCHANGED db

\* the duplicate check: SELECT ... WHERE user_id = u AND quiz_id = q
SubmitQuiz_Check(w) ==
    /\ req[w].pc = "check" /\ req[w].op = "submit_quiz"
    /\ req' = [req EXCEPT ![w] =
                 IF HasQuizSubmission(req[w].user, req[w].id)
                 THEN Respond(req[w], 400)
                 ELSE [req[w] EXCEPT !.pc = "commit"]]
    /\ UNCHANGED db

\* db.add(new_submission); db.flush(); one answers row per answer of the
\* payload, with the question_id it carries; db.commit()
SubmitQuiz_Commit(w) ==
    /\ req[w].pc = "commit" /\ req[w].op = "submit_quiz"
    /\ quiz_submissions' =
         Append(quiz_submissions, QuizSubmission(req[w].user, req[w].id))
    /\ answers' = answers \o
         [i \in 1..Len(req[w].body) |->
            [submission_id |-> Len(quiz_submissions) + 1,
             question_id |-> req[w].body[i]]]
    /\ req' = [req EXCEPT ![w] = Respond(req[w], 201)]
    /\ UNCHANGED <<points, tasks, lessons, quizzes, task_submissions,
                   questions, games, game_scores, user_rows, deleted_games>>

\* -------------------------------------------------- grade_task_submission
\* get_current_user loads the caller's users row into the session, then
\* the role check: 403 unless the caller is a teacher
GradeTask_Auth(w, u, s, p) ==
    /\ req[w].pc = "idle"
    /\ req' = [req EXCEPT ![w] =
                 IF role[u] # "teacher"
                 THEN Respond(Request("grade_task", u, s, p, "auth"), 403)
                 ELSE [Request("grade_task", u, s, p, "get")
                          EXCEPT !.cache = points[u]]]
    /\ UNCHANGED db

\* the slip "if not sub:" (without "or sub.approved")
GradeTask_Get_NoApprovedCheck(w) ==
    /\ req[w].pc = "get" /\ req[w].op = "grade_task"
    /\ req' = [req EXCEPT ![w] =
                 IF req[w].id \notin 1..Len(task_submissions)
                 THEN [req[w] EXCEPT !.pc = "done", !.res = 404, !.cache = 0]
                 ELSE [req[w] EXCEPT !.pc = "student"]]
    /\ UNCHANGED db

\* sub = db.query(TaskSubmission).get(submission_id);
\* 404 when there is none or it is approved
GradeTask_Get(w) ==
    /\ req[w].pc = "get" /\ req[w].op = "grade_task"
    /\ req' = [req EXCEPT ![w] =
                 IF \/ req[w].id \notin 1..Len(task_submissions)
                    \/ task_submissions[req[w].id].approved
                 THEN Respond(req[w], 404)
                 ELSE [req[w] EXCEPT !.pc = "student"]]
    /\ UNCHANGED db

\* sub.student: the owner's users row, taken from the session when it is
\* the caller's own row (loaded by get_current_user), selected otherwise
GradeTask_Student(w) ==
    /\ req[w].pc = "student" /\ req[w].op = "grade_task"
    /\ LET owner == task_submissions[req[w].id].user_id
       IN req' = [req EXCEPT ![w] =
                    [req[w] EXCEPT !.pc = "commit",
                                   !.cache = IF owner = req[w].user
                                             THEN req[w].cache
                                             ELSE points[owner]]]
    /\ UNCHANGED db

\* sub.approved = True; sub.points_awarded = grade.points;
\* sub.student.points += grade.points; db.commit()
GradeTask_Commit(w) ==
    /\ req[w].pc = "commit" /\ req[w].op = "grade_task"
    /\ LET s == req[w].id
           owner == task_submissions[s].user_id
       IN /\ task_submissions' =
               [task_submissions EXCEPT ![s] =
                   [@ EXCEPT !.approved = TRUE, !.points_awarded = req[w].pts]]
          /\ points' = [points EXCEPT ![owner] = req[w].cache + req[w].pts]
    /\ req' = [req EXCEPT ![w] = Respond(req[w], 200)]
    /\ UNCHANGED <<tasks, lessons, quizzes, quiz_submissions>>
    /\ UNCHANGED content

\* -------------------------------------------------- grade_quiz_submission
\* the slip of leaving the role check out
GradeQuiz_Auth_NoRoleCheck(w, u, s, p) ==
    /\ req[w].pc = "idle"
    /\ req' = [req EXCEPT ![w] =
                 [pc |-> "get", op |-> "grade_quiz", user |-> u, id |-> s,
                  pts |-> p, cache |-> points[u], res |-> 0, out |-> 0,
                  body |-> <<>>]]
    /\ UNCHANGED db

GradeQuiz_Auth(w, u, s, p) ==
    /\ req[w].pc = "idle"
    /\ req' = [req EXCEPT ![w] =
                 IF role[u] # "teacher"
                 THEN Respond(Request("grade_quiz", u, s, p, "auth"), 403)
                 ELSE [Request("grade_quiz", u, s, p, "get")
                          EXCEPT !.cache = points[u]]]
    /\ UNCHANGED db

\* sub = db.query(QuizSubmission).get(submission_id);
\* 404 when there is none or it is graded
GradeQuiz_Get(w) ==
    /\ req[w].pc = "get" /\ req[w].op = "grade_quiz"
    /\ req' = [req EXCEPT ![w] =
                 IF \/ req[w].id \notin 1..Len(quiz_submissions)
                    \/ quiz_submissions[req[w].id].is_graded
                 THEN Respond(req[w], 404)
                 ELSE [req[w] EXCEPT !.pc = "student"]]
    /\ UNCHANGED db

GradeQuiz_Student(w) ==
    /\ req[w].pc = "student" /\ req[w].op = "grade_quiz"
    /\ LET owner == quiz_submissions[req[w].id].user_id
       IN req' = [req EXCEPT ![w] =
                    [req[w] EXCEPT !.pc = "commit",
                                   !.cache = IF owner = req[w].user
                                             THEN req[w].cache
                                             ELSE points[owner]]]
    /\ UNCHANGED db

\* the slip "sub.student.points = grade.score" ("=" for "+=")
GradeQuiz_Commit_Assign(w) ==
    /\ req[w].pc = "commit" /\ req[w].op = "grade_quiz"
    /\ LET s == req[w].id
           owner == quiz_submissions[s].user_id
       IN /\ quiz_submissions' =
               [quiz_submissions EXCEPT ![s] =
                   [@ EXCEPT !.is_graded = TRUE, !.score = <<req[w].pts>>]]
          /\ points' = [points EXCEPT ![owner] = req[w].pts]
    /\ req' = [req EXCEPT ![w] =
                 [req[w] EXCEPT !.pc = "done", !.res = 200, !.cache = 0]]
    /\ UNCHANGED <<tasks, lessons, quizzes, task_submissions>>
    /\ UNCHANGED content

\* sub.is_graded = True; sub.score = grade.score;
\* sub.student.points += grade.score; db.commit()
GradeQuiz_Commit(w) ==
    /\ req[w].pc = "commit" /\ req[w].op = "grade_quiz"
    /\ LET s == req[w].id
           owner == quiz_submissions[s].user_id
       IN /\ quiz_submissions' =
               [quiz_submissions EXCEPT ![s] =
                   [@ EXCEPT !.is_graded = TRUE, !.score = Val(req[w].pts)]]
          /\ points' = [points EXCEPT ![owner] = req[w].cache + req[w].pts]
    /\ req' = [req EXCEPT ![w] = Respond(req[w], 200)]
    /\ UNCHANGED <<tasks, lessons, quizzes, task_submissions>>
    /\ UNCHANGED content

\* ----------------------------------------------------- get_student_report
\* func.sum(column) over the rows of a user: NULL values are skipped, and
\* the sum of no value is NULL
RECURSIVE SqlSum(_)
SqlSum(cells) ==
    IF cells = <<>> THEN NULL
    ELSE LET rest == SqlSum(Tail(cells))
         IN IF Head(cells) = NULL THEN rest
            ELSE IF rest = NULL THEN Head(cells)
            ELSE Val(Head(cells)[1] + rest[1])

\* `<scalar> or 0`: NULL and 0 both give 0
OrZero(cell) == IF cell = NULL THEN 0 ELSE cell[1]

\* the slip of leaving the filter on user_id out
TaskPoints_AllUsers(student_id) ==
    LET cells == [i \in 1..Len(task_submissions) |->
                     <<task_submissions[i].points_awarded>>]
        total[i \in 0..Len(cells)] ==
            IF i = 0 THEN 0 ELSE total[i - 1] + cells[i][1]
    IN total[Len(cells)]

\* db.query(func.sum(TaskSubmission.points_awarded))
\*   .filter(TaskSubmission.user_id == student_id).scalar() or 0
TaskPoints(student_id) ==
    LET Mine(r) == r.user_id = student_id
        rows == SelectSeq(task_submissions, Mine)
    IN OrZero(SqlSum([i \in 1..Len(rows) |-> Val(rows[i].points_awarded)]))

\* db.query(func.sum(QuizSubmission.score))
\*   .filter(QuizSubmission.user_id == student_id).scalar() or 0
QuizPoints(student_id) ==
    LET Mine(r) == r.user_id = student_id
        rows == SelectSeq(quiz_submissions, Mine)
    IN OrZero(SqlSum([i \in 1..Len(rows) |-> rows[i].score]))

\* score.game: the games row with the score's game_id, if there is one
HasGame(score) == \E g \in games : g.id = score.game_id
GameOf(score) == CHOOSE g \in games : g.id = score.game_id

\* the game_scores rows of a student that pass `if score.game:`
CountedScores(student_id) ==
    {r \in game_scores : r.user_id = student_id /\ HasGame(r)}

RECURSIVE SumScores(_)
SumScores(rows) ==
    IF rows = {} THEN 0
    ELSE LET r == CHOOSE x \in rows : TRUE
         IN r.score + SumScores(rows \ {r})

\* avg_skills: per skill of a counted score, sum(scores)/len(scores), kept
\* as the pair <<sum, len>>
SoftSkills(student_id) ==
    LET counted == CountedScores(student_id)
        Of(k) == {r \in counted : GameOf(r).skill = k}
    IN [k \in {GameOf(r).skill : r \in counted} |->
           <<SumScores(Of(k)), Cardinality(Of(k))>>]

\* 403 unless the caller is a teacher or the student; 404 unless the id is
\* a student's; academic_score = task_points + quiz_points; soft_skills
GetStudentReport(w, u, student_id) ==
    /\ req[w].pc = "idle"
    /\ req' = [req EXCEPT ![w] =
                 IF role[u] # "teacher" /\ u # student_id
                 THEN Respond(Request("report", u, student_id, 0, "auth"), 403)
                 ELSE IF student_id \notin Users \/ role[student_id] # "student"
                 THEN Respond(Request("report", u, student_id, 0, "get"), 404)
                 ELSE [Respond(Request("report", u, student_id, 0, "get"), 200)
                          EXCEPT !.out = TaskPoints(student_id) + QuizPoints(student_id),
                                 !.body = SoftSkills(student_id)]]
    /\ UNCHANGED db

\* ---------------------------------------------- get_quiz_submission_details
\* ans.question: the questions row with the answer's question_id, or None
HasQuestion(ans) == \E q \in questions : q.id = ans.question_id

\* 403 unless the caller is a teacher, 404 when there is no such
\* submission; ans.question.question_text of each answer of the submission,
\* which raises (500) when ans.question is None
GetQuizSubmissionDetails(w, u, s) ==
    /\ req[w].pc = "idle"
    /\ LET r == Request("quiz_details", u, s, 0, "get")
           mine == SelectSeq(answers, LAMBDA a : a.submission_id = s)
       IN req' = [req EXCEPT ![w] =
            IF role[u] # "teacher" THEN Respond(r, 403)
            ELSE IF s \notin 1..Len(quiz_submissions) THEN Respond(r, 404)
            ELSE IF \E i \in 1..Len(mine) : ~HasQuestion(mine[i])
                 THEN Respond(r, 500)
            ELSE [Respond(r, 200) EXCEPT
                    !.body = [i \in 1..Len(mine) |-> mine[i].question_id]]]
    /\ UNCHANGED db

\* ------------------------------------------------------------ leaderboard
\* the slip of leaving the role filter out: every row
StudentIds_NoRoleFilter(rows) ==
    [i \in 1..Len(rows) |-> i]

\* filter(User.role == 'student'): the ids of the student rows, in id order
StudentIds(rows) ==
    SelectSeq([i \in 1..Len(rows) |-> i], LAMBDA i : rows[i].role = "student")

\* order_by(User.points.desc()): a row goes behind the rows that have at
\* least its points (rows of equal points stay in id order)
InsertByPoints(rows, sorted, i) ==
    LET k == Cardinality({j \in 1..Len(sorted) :
                            rows[sorted[j]].points >= rows[i].points})
    IN SubSeq(sorted, 1, k) \o <<i>> \o SubSeq(sorted, k + 1, Len(sorted))

RECURSIVE OrderByPointsDesc(_, _)
OrderByPointsDesc(rows, ids) ==
    IF ids = <<>> THEN <<>>
    ELSE InsertByPoints(rows,
             OrderByPointsDesc(rows, SubSeq(ids, 1, Len(ids) - 1)),
             ids[Len(ids)])

\* limit(n)
Limit(seq, n) == SubSeq(seq, 1, IF Len(seq) < n THEN Len(seq) ELSE n)

\* .all(): the rows of the ids, as UserOut (id, role, points)
UserOut(rows, ids) ==
    [k \in 1..Len(ids) |->
        [id |-> ids[k], role |-> rows[ids[k]].role, points |-> rows[ids[k]].points]]

\* leaderboard: no caller is authenticated; the response is the query's rows
Leaderboard(w) ==
    /\ req[w].pc = "idle"
    /\ req' = [req EXCEPT ![w] =
         [Respond(Request("leaderboard", 0, 0, 0, "get"), 200) EXCEPT
            !.body = UserOut(user_rows,
                        Limit(OrderByPointsDesc(user_rows, StudentIds(user_rows)),
                              LeaderboardLimit))]]
    /\ UNCHANGED db

\* ------------------------------------------------------------------ games
\* add_game: 403 unless the caller is a teacher; one games row is inserted
AddGame(u, skill) ==
    /\ role[u] = "teacher"
    /\ NextId(games) <= MaxGameId
    /\ games' = games \cup {[id |-> NextId(games), skill |-> skill]}
    /\ UNCHANGED <<points, tasks, lessons, quizzes, task_submissions,
                   quiz_submissions, req, questions, answers, game_scores,
                   user_rows, deleted_games>>

\* delete_game: 403 unless the caller is a teacher, 404 when there is no
\* such game; db.delete(game) deletes the game's scores with it (cascade)
DeleteGame(u, g) ==
    /\ role[u] = "teacher"
    /\ \E r \in games : r.id = g
    /\ games' = {r \in games : r.id # g}
    /\ game_scores' = {r \in game_scores : r.game_id # g}
    /\ deleted_games' = deleted_games \cup {g}
    /\ UNCHANGED <<points, tasks, lessons, quizzes, task_submissions,
                   quiz_submissions, req, questions, answers, user_rows>>

\* submit_game_score: any authenticated user, any game_id; one row
SubmitGameScore(u, g, sc) ==
    /\ NextId(game_scores) <= MaxScores
    /\ game_scores' = game_scores \cup
           {[id |-> NextId(game_scores), user_id |-> u, game_id |-> g,
             score |-> sc]}
    /\ UNCHANGED <<points, tasks, lessons, quizzes, task_submissions,
                   quiz_submissions, req, questions, answers, games,
                   user_rows, deleted_games>>

\* the response has been delivered; the thread takes the next request
Return(w) ==
    /\ req[w].pc = "done"
    /\ req' = [req EXCEPT ![w] = Idle]
    /\ UNCHANGED db

\* one statement of the request thread w is serving, or its next request
Handle(w) ==
    \/ \E u \in Users, t \in TaskIds : SubmitTask_Check(w, u, t)
    \/ SubmitTask_Commit(w)
    \/ \E u \in Users, q \in QuizIds : SubmitQuiz_Get(w, u, q, <<>>)
    \/ SubmitQuiz_Check(w)
    \/ SubmitQuiz_Commit(w)
    \/ \E u \in Users, s \in SubIds, p \in GradeValues : GradeTask_Auth(w, u, s, p)
    \/ GradeTask_Get(w)
    \/ GradeTask_Student(w)
    \/ GradeTask_Commit(w)
    \/ \E u \in Users, s \in SubIds, p \in GradeValues : GradeQuiz_Auth(w, u, s, p)
    \/ GradeQuiz_Get(w)
    \/ GradeQuiz_Student(w)
    \/ GradeQuiz_Commit(w)
    \/ \E u \in Users, s \in Users : GetStudentReport(w, u, s)
    \/ Return(w)

Setup ==
    \/ \E u \in Users : CreateLesson(u)
    \/ \E u \in Users, l \in LessonIds : CreateOrUpdateQuiz(u, l, 0)
    \/ \E u \in Users : AssignTask(u)

\* (Setup saves quizzes without questions and Handle submits them without
\* answers: grading and the academic score read neither table)
\* the thread pool: the statements of the requests in flight interleave
Next ==
    \/ Setup
    \/ \E w \in Workers : Handle(w)

Spec == Init /\ [][Next]_vars

\* requests arriving one at a time: the next one is taken up (by the first
\* pool thread) when the response to the previous one has been delivered
Serial == CHOOSE w \in Workers : \A v \in Workers : w <= v

NextSeq ==
    \/ req[Serial].pc = "idle" /\ Setup
    \/ Handle(Serial)

SeqSpec == Init /\ [][NextSeq]_vars

\* the games workload, one request at a time: games are added and deleted,
\* scores submitted, reports asked for
NextGames ==
    \/ /\ req[Serial].pc = "idle"
       /\ \/ \E u \in Users, k \in NewSkills : AddGame(u, k)
          \/ \E u \in Users, g \in GameIds : DeleteGame(u, g)
          \/ \E u \in Users, g \in GameIds, sc \in GameScoreValues :
                SubmitGameScore(u, g, sc)
    \/ \E u \in Users, s \in Users : GetStudentReport(Serial, u, s)
    \/ Return(Serial)

GameSpec == Init /\ [][NextGames]_vars

\* the quiz workload, one request at a time: quizzes saved with questions,
\* submitted with answers, and the submissions looked at
NextQuiz ==
    \/ /\ req[Serial].pc = "idle"
       /\ \/ \E u \in Users : CreateLesson(u)
          \/ \E u \in Users, l \in LessonIds, n \in 0..MaxQuestions :
                CreateOrUpdateQuiz(u, l, n)
    \/ \E u \in Users, q \in QuizIds, payload \in AnswerPayloads :
          SubmitQuiz_Get(Serial, u, q, payload)
    \/ SubmitQuiz_Check(Serial)
    \/ SubmitQuiz_Commit(Serial)
    \/ \E u \in Users, s \in SubIds : GetQuizSubmissionDetails(Serial, u, s)
    \/ Return(Serial)

QuizSpec == Init /\ [][NextQuiz]_vars

\* the users tables the leaderboard is asked over: up to MaxUsers rows, of
\* which at most MaxTeachers are teachers and at most MaxScored have been
\* given points (a sum of grades) other than the default 0
SmallSubsets(S, k) == {X \in SUBSET S : Cardinality(X) <= k}

UserTable(n, teachers, scored, given) ==
    [i \in 1..n |->
        [role |-> IF i \in teachers THEN "teacher" ELSE "student",
         points |-> IF i \in scored THEN given[i] ELSE 0]]

LeaderInit ==
    /\ InitTables
    /\ \E n \in 0..MaxUsers :
         \E teachers \in SmallSubsets(1..n, MaxTeachers) :
         \E scored \in SmallSubsets(1..n, MaxScored) :
         \E given \in [scored -> GradeValues] :
            user_rows = UserTable(n, teachers, scored, given)

NextLeader ==
    \/ Leaderboard(Serial)
    \/ Return(Serial)

LeaderSpec == LeaderInit /\ [][NextLeader]_vars

\* ======================================================== claim vocabulary
GradeOps == {"grade_task", "grade_quiz"}
SubmitOps == {"submit_task", "submit_quiz"}

\* thread w takes up a new request in this step
Starts(w) == req[w].pc = "idle" /\ req'[w].pc # "idle"
\* thread w performs its commit in this step
Commits(w, op) == req[w].pc = "commit" /\ req[w].op = op /\ req'[w].pc = "done"

TaskRows(u, t) ==
    {i \in 1..Len(task_submissions) :
        task_submissions[i].user_id = u /\ task_submissions[i].task_id = t}
QuizRows(u, q) ==
    {i \in 1..Len(quiz_submissions) :
        quiz_submissions[i].user_id = u /\ quiz_submissions[i].quiz_id = q}

\* what user u has been awarded: points_awarded of the approved task
\* submissions plus score of the graded quiz submissions
GradedTaskSum(u) ==
    LET f[i \in 0..Len(task_submissions)] ==
            IF i = 0 THEN 0
            ELSE f[i - 1] + (IF /\ task_submissions[i].user_id = u
                                /\ task_submissions[i].approved
                             THEN task_submissions[i].points_awarded ELSE 0)
    IN f[Len(task_submissions)]
GradedQuizSum(u) ==
    LET f[i \in 0..Len(quiz_submissions)] ==
            IF i = 0 THEN 0
            ELSE f[i - 1] + (IF /\ quiz_submissions[i].user_id = u
                                /\ quiz_submissions[i].is_graded
                             THEN quiz_submissions[i].score[1] ELSE 0)
    IN f[Len(quiz_submissions)]
GradedSum(u) == GradedTaskSum(u) + GradedQuizSum(u)

\* ---------------------------------------------------------------------- C1
\* C1: in every reachable state there is at most one submission row per
\* (user, task) and per (user, quiz), also when submits interleave.
C1_AtMostOneSubmission ==
    /\ \A u \in Users, t \in TaskIds : Cardinality(TaskRows(u, t)) <= 1
    /\ \A u \in Users, q \in QuizIds : Cardinality(QuizRows(u, q)) <= 1

\* ---------------------------------------------------------------------- C2
\* C2: of the grade calls on one submission exactly one succeeds: a grade
\* call never commits (succeeds) on a submission another call has graded.
C2_OneGradeSucceeds ==
    [][\A w \in Workers :
          /\ Commits(w, "grade_task") => ~task_submissions[req[w].id].approved
          /\ Commits(w, "grade_quiz") => ~quiz_submissions[req[w].id].is_graded
      ]_vars

\* ---------------------------------------------------------------------- C3
\* C3: in every committed state each user's points equals the sum of the
\* awards of that user's graded task and quiz submissions.
C3_PointsMatchGraded == \A u \in Users : points[u] = GradedSum(u)

\* ---------------------------------------------------------------------- C4
\* C4: once a submission is graded with p, a later grade call on it fails
\* (404 "Not found or already graded."), the submission keeps its graded
\* flag and the score p, and the points are not incremented again.
C4_GradeOnce ==
    [][/\ \A s \in 1..Len(task_submissions) :
            task_submissions[s].approved =>
              /\ task_submissions'[s] = task_submissions[s]
              /\ \A w \in Workers :
                    /\ req[w].op = "grade_task" /\ req[w].id = s
                    /\ req[w].pc # "done"
                    /\ req'[w] # req[w]
                    => req'[w].pc = "done" /\ req'[w].res = 404 /\ db' = db
       /\ \A s \in 1..Len(quiz_submissions) :
            quiz_submissions[s].is_graded =>
              /\ quiz_submissions'[s] = quiz_submissions[s]
              /\ \A w \in Workers :
                    /\ req[w].op = "grade_quiz" /\ req[w].id = s
                    /\ req[w].pc # "done"
                    /\ req'[w] # req[w]
                    => req'[w].pc = "done" /\ req'[w].res = 404 /\ db' = db
      ]_vars

\* a second grade call, with other points, has failed on a graded submission
C4_Witness ==
    \E w \in Workers :
        /\ req[w].pc = "done" /\ req[w].op = "grade_task" /\ req[w].res = 404
        /\ req[w].id \in 1..Len(task_submissions)
        /\ task_submissions[req[w].id].approved
        /\ task_submissions[req[w].id].points_awarded # req[w].pts
        /\ points[task_submissions[req[w].id].user_id]
             = task_submissions[req[w].id].points_awarded

\* ---------------------------------------------------------------------- C5
\* C5: a teacher's grade call with points p on an existing ungraded
\* submission succeeds; its commit marks that submission graded with p,
\* adds p to the owner's points, and changes no other user's points and no
\* other submission.
C5_GradeEffect ==
    [][\A w \in Workers :
        /\ req[w].op = "grade_task" /\ req[w].pc = "get" /\ req'[w] # req[w]
           /\ req[w].id \in 1..Len(task_submissions)
           /\ ~task_submissions[req[w].id].approved
           => req'[w].pc = "student"
        /\ req[w].op = "grade_task" /\ req[w].pc = "student" /\ req'[w] # req[w]
           => req'[w].pc = "commit"
        /\ req[w].op = "grade_task" /\ req[w].pc = "commit" /\ req'[w] # req[w]
           => LET s == req[w].id
                  owner == task_submissions[s].user_id
              IN /\ req'[w].pc = "done" /\ req'[w].res = 200
                 /\ task_submissions' =
                      [task_submissions EXCEPT ![s] =
                          [task_id |-> task_submissions[s].task_id,
                           user_id |-> owner,
                           approved |-> TRUE,
                           points_awarded |-> req[w].pts]]
                 /\ points' = [u \in Users |->
                                 IF u = owner THEN points[u] + req[w].pts
                                 ELSE points[u]]
                 /\ quiz_submissions' = quiz_submissions
        /\ req[w].op = "grade_quiz" /\ req[w].pc = "get" /\ req'[w] # req[w]
           /\ req[w].id \in 1..Len(quiz_submissions)
           /\ ~quiz_submissions[req[w].id].is_graded
           => req'[w].pc = "student"
        /\ req[w].op = "grade_quiz" /\ req[w].pc = "student" /\ req'[w] # req[w]
           => req'[w].pc = "commit"
        /\ req[w].op = "grade_quiz" /\ req[w].pc = "commit" /\ req'[w] # req[w]
           => LET s == req[w].id
                  owner == quiz_submissions[s].user_id
              IN /\ req'[w].pc = "done" /\ req'[w].res = 200
                 /\ quiz_submissions' =
                      [quiz_submissions EXCEPT ![s] =
                          [quiz_id |-> quiz_submissions[s].quiz_id,
                           user_id |-> owner,
                           is_graded |-> TRUE,
                           score |-> <<req[w].pts>>]]
                 /\ points' = [u \in Users |->
                                 IF u = owner THEN points[u] + req[w].pts
                                 ELSE points[u]]
                 /\ task_submissions' = task_submissions
      ]_vars

\* a quiz submission of a student who already had points has been graded
C5_Witness ==
    \E w \in Workers :
        /\ req[w].pc = "done" /\ req[w].op = "grade_quiz" /\ req[w].res = 200
        /\ quiz_submissions[req[w].id].is_graded
        /\ quiz_submissions[req[w].id].score = <<req[w].pts>>
        /\ quiz_submissions[req[w].id].user_id = DemoStudent
        /\ points[DemoStudent] # req[w].pts
        /\ points[DemoStudent] # 0

\* ---------------------------------------------------------------------- C6
\* C6: no step ever lowers a user's points.
C6_PointsNonDecreasing ==
    [][\A u \in Users : points'[u] >= points[u]]_vars

\* ---------------------------------------------------------------------- C7
\* C7: a grade call by a caller who is not a teacher is answered 403
\* Forbidden at once and changes no row: no submission and no user's points.
C7_ForbiddenGradeChangesNothing ==
    [][\A w \in Workers :
          Starts(w) /\ req'[w].op \in GradeOps /\ role[req'[w].user] # "teacher"
          => req'[w].pc = "done" /\ req'[w].res = 403 /\ db' = db
      ]_vars

\* a student's grade call on an existing, ungraded submission was refused
C7_Witness ==
    \E w \in Workers :
        /\ req[w].pc = "done" /\ req[w].op = "grade_task" /\ req[w].res = 403
        /\ role[req[w].user] = "student"
        /\ req[w].id \in 1..Len(task_submissions)
        /\ ~task_submissions[req[w].id].approved

\* ---------------------------------------------------------------------- C8
\* C8: a submit that names an item that does not exist is answered 404 at
\* once and creates no row, for tasks as for quizzes.
C8_SubmitUnknownItemNotFound ==
    [][\A w \in Workers :
          /\ Starts(w) /\ req'[w].op = "submit_task" /\ req'[w].id \notin 1..tasks
             => req'[w].pc = "done" /\ req'[w].res = 404 /\ db' = db
          /\ Starts(w) /\ req'[w].op = "submit_quiz"
             /\ req'[w].id \notin 1..Len(quizzes)
             => req'[w].pc = "done" /\ req'[w].res = 404 /\ db' = db
      ]_vars

\* ---------------------------------------------------------------------- C9
\* C9: the commit of a submit answers 201 and appends exactly one row, for
\* (user, item) and ungraded (task: approved = FALSE, points_awarded = 0;
\* quiz: is_graded = FALSE, score NULL); the points and every other
\* submission row stay as they were.
C9_SubmitEffect ==
    [][\A w \in Workers :
        /\ req[w].op = "submit_task" /\ req[w].pc = "commit" /\ req'[w] # req[w]
           => /\ req'[w].pc = "done" /\ req'[w].res = 201
              /\ task_submissions' =
                   task_submissions \o
                     <<[task_id |-> req[w].id, user_id |-> req[w].user,
                        approved |-> FALSE, points_awarded |-> 0]>>
              /\ quiz_submissions' = quiz_submissions
              /\ points' = points
        /\ req[w].op = "submit_quiz" /\ req[w].pc = "commit" /\ req'[w] # req[w]
           => /\ req'[w].pc = "done" /\ req'[w].res = 201
              /\ quiz_submissions' =
                   quiz_submissions \o
                     <<[quiz_id |-> req[w].id, user_id |-> req[w].user,
                        is_graded |-> FALSE, score |-> <<>>]>>
              /\ task_submissions' = task_submissions
              /\ points' = points
      ]_vars

\* a quiz has been submitted while a graded submission and points existed
C9_Witness ==
    \E w \in Workers :
        /\ req[w].pc = "done" /\ req[w].op = "submit_quiz" /\ req[w].res = 201
        /\ \E i \in 1..Len(quiz_submissions) :
              /\ quiz_submissions[i].user_id = req[w].user
              /\ quiz_submissions[i].quiz_id = req[w].id
              /\ ~quiz_submissions[i].is_graded
              /\ quiz_submissions[i].score = <<>>
        /\ \E i \in 1..Len(task_submissions) : task_submissions[i].approved
        /\ \E u \in Users : points[u] # 0

\* --------------------------------------------------------------------- C10
\* C10: a report on a student asked for by a teacher or by that student is
\* answered 200 with academic_score = the awards of that student's graded
\* task and quiz submissions (ungraded rows and other users' rows count 0),
\* and changes no row.
C10_AcademicScore ==
    [][\A w \in Workers :
          Starts(w) /\ req'[w].op = "report"
          /\ role[req'[w].id] = "student"
          /\ (role[req'[w].user] = "teacher" \/ req'[w].user = req'[w].id)
          => /\ req'[w].pc = "done" /\ req'[w].res = 200
             /\ req'[w].out = GradedSum(req'[w].id)
             /\ db' = db
      ]_vars

\* a report was built while the student had a graded and an ungraded
\* submission and another user had a graded one
C10_Witness ==
    \E w \in Workers :
        /\ req[w].pc = "done" /\ req[w].op = "report" /\ req[w].res = 200
        /\ req[w].out # 0
        /\ req[w].out = GradedSum(req[w].id)
        /\ \E i \in 1..Len(quiz_submissions) :
              /\ quiz_submissions[i].user_id = req[w].id
              /\ quiz_submissions[i].is_graded
        /\ \E i \in 1..Len(task_submissions) :
              /\ task_submissions[i].user_id # req[w].id
              /\ task_submissions[i].approved

\* --------------------------------------------------------------------- C11
\* C11: after delete_game(g) has succeeded, a score held for g's id while
\* no game has that id (one submitted for the id around or after the
\* deletion) is counted by no later report; and every report answers (no
\* fault) with exactly the skills of the student's scores whose game
\* exists, so a skill without a surviving score is absent from the map.
C11_DeletedGameScoresStayOut ==
    [][/\ \A r \in game_scores :
            (r.game_id \in deleted_games /\ ~HasGame(r) /\ r \in game_scores')
              => r \notin CountedScores(r.user_id)'
       /\ \A w \in Workers :
            Starts(w) /\ req'[w].op = "report" /\ req'[w].res = 200
            => DOMAIN req'[w].body =
                 {g.skill : g \in {x \in games :
                    \E r \in game_scores :
                       r.user_id = req'[w].id /\ r.game_id = x.id}}
      ]_vars

\* --------------------------------------------------------------------- C12
\* the ids of the questions of quiz q
QuestionSet(q) == {r.id : r \in {x \in questions : x.quiz_id = q}}

\* C12: a submit_quiz whose payload has a question id outside the quiz's
\* question set is rejected (its answer is not 201) and creates neither a
\* submission nor an answer.
C12_InvalidAnswerRejected ==
    [][\A w \in Workers :
         (/\ req[w].op = "submit_quiz" /\ req[w].pc # "done"
          /\ req'[w].pc = "done"
          /\ \E i \in 1..Len(req[w].body) :
                req[w].body[i] \notin QuestionSet(req[w].id))
         => /\ req'[w].res # 201
            /\ quiz_submissions' = quiz_submissions
            /\ answers' = answers
      ]_vars

\* --------------------------------------------------------------------- C14
\* C14: every answers row references a questions row that exists, so
\* get_quiz_submission_details never faults - also after
\* create_or_update_quiz has replaced a quiz's questions.
C14_AnswersReferenceQuestions ==
    /\ \A i \in 1..Len(answers) : HasQuestion(answers[i])
    /\ \A w \in Workers : req[w].op = "quiz_details" => req[w].res # 500

\* --------------------------------------------------------------------- C13
\* the ids of the students of the users table
StudentSet == {u \in 1..Len(user_rows) : user_rows[u].role = "student"}

\* C13: the leaderboard answers with rows of the users table, each once,
\* that are students, at most 10 of them, in non-increasing order of
\* points; no student left out has more points than one that is in; and of
\* 11 students exactly 10 are in.
C13_LeaderboardTopTen ==
    \A w \in Workers :
      (req[w].op = "leaderboard" /\ req[w].pc = "done") =>
        LET out == req[w].body
            shown == {out[k].id : k \in 1..Len(out)}
        IN /\ req[w].res = 200
           /\ \A k \in 1..Len(out) :
                /\ out[k].role = "student"
                /\ out[k].id \in StudentSet
                /\ out[k].points = user_rows[out[k].id].points
           /\ Cardinality(shown) = Len(out)
           /\ Len(out) <= 10
           /\ \A j, k \in 1..Len(out) : j < k => out[j].points >= out[k].points
           /\ \A u \in StudentSet \ shown : \A k \in 1..Len(out) :
                user_rows[u].points <= out[k].points
           /\ Cardinality(StudentSet) = 11 => Len(out) = 10

\* the leaderboard has answered over 11 students and a teacher: 10 rows,
\* led by a student of the last rows who has points, one student left out
C13_Witness ==
    \E w \in Workers :
      /\ req[w].op = "leaderboard" /\ req[w].pc = "done"
      /\ Cardinality(StudentSet) = 11
      /\ \E t \in 1..Len(user_rows) : user_rows[t].role = "teacher"
      /\ Len(req[w].body) = 10
      /\ req[w].body[1].id > 10
      /\ req[w].body[1].points > 0
====
